---- MODULE Spec2Model ----
(***************************************************************************)
(* Verification model of the darkhorse signal and rebalancing engine:      *)
(*   src/darkhorse/indicators.py   SMA / ROC / RSI                         *)
(*   src/darkhorse/recommender.py  analyse_asset                           *)
(*   src/darkhorse/live.py         SimulatedMoneroFeed                     *)
(*   src/darkhorse/trader.py       main (the rebalancing loop)             *)
(*                                                                         *)
(* Python floats are modelled as exact rationals [n |-> Int, d |-> Nat],   *)
(* kept in lowest terms with d > 0, so a comparison of two values is the   *)
(* comparison of the real numbers the code computes; rounding of the       *)
(* binary floating point format is not modelled.  The value None is the    *)
(* record with d = 0, which is no rational.                                *)
(*                                                                         *)
(* The model of main starts where the function starts (trader.py 221).     *)
(* trader.py 13-18 imports DEFAULT_TRANSACTION_FEE_RATE, the default of    *)
(* --fee-rate, which defaults.py does not define; the runs modelled pass   *)
(* every option explicitly.                                                *)
(***************************************************************************)
EXTENDS Integers, Sequences, FiniteSets, TLC

VARIABLES
    pc,                         \* position of main: see the actions
    exception,                  \* the exception that left main, or "None"
    args,                       \* the parsed command line
    trade_fraction, fee_rate,   \* trader.py 228-229
    history, recommendation,
    xmr_balance, usd_balance, iteration,
    baseline_total_value, baseline_price,
    simulation_feed, simulation_active,
    buy_count, total_xmr_bought, total_usd_spent_with_fees, total_buy_fees,
    sell_count, total_xmr_sold, total_usd_gained_net, total_sell_fees,
    stdout,                     \* the end-of-run reports printed so far
    exit_status,                \* the value main returned, or -1
    slept,                      \* argument of the last time.sleep, or None
    polls,                      \* passes of the while loop so far
    outperformance,             \* trader.py 300, as of the latest cycle
    share_change,               \* trader.py 320 in the latest cycle, or None
    trade_lines,                \* trader.py 313-373 in the latest cycle
    cycle_target_share,         \* trader.py 310 in the latest cycle, or None
    bars_from,                  \* where the bars of `history` came from
    indicator                   \* the latest call of an indicator function

vars == << pc, exception, args, trade_fraction, fee_rate, history,
           recommendation, xmr_balance, usd_balance, iteration,
           baseline_total_value, baseline_price, simulation_feed,
           simulation_active, buy_count, total_xmr_bought,
           total_usd_spent_with_fees, total_buy_fees, sell_count,
           total_xmr_sold, total_usd_gained_net, total_sell_fees,
           stdout, exit_status, slept, polls, outperformance, share_change,
           trade_lines, cycle_target_share, bars_from, indicator >>

(***************************************************************************)
(* Float arithmetic, as exact rational arithmetic.                         *)
(***************************************************************************)
Abs(x) == IF x < 0 THEN -x ELSE x

RECURSIVE GCD(_, _)
GCD(a, b) == IF b = 0 THEN a ELSE GCD(b, a % b)

LCM(a, b) == (a \div GCD(a, b)) * b

None == [n |-> 0, d |-> 0]

Rat(num, den) ==
    LET s == IF den < 0 THEN -1 ELSE 1
        g == GCD(Abs(num), Abs(den))
    IN  [n |-> (s * num) \div g, d |-> Abs(den) \div g]

F(i) == [n |-> i, d |-> 1]

RAdd(a, b) ==
    LET l == LCM(a.d, b.d)
    IN  Rat(a.n * (l \div a.d) + b.n * (l \div b.d), l)

RNeg(a) == [n |-> -a.n, d |-> a.d]

RSub(a, b) == RAdd(a, RNeg(b))

RMul(a, b) ==
    LET g1 == GCD(Abs(a.n), b.d)
        g2 == GCD(Abs(b.n), a.d)
    IN  IF a.n = 0 \/ b.n = 0 THEN F(0)
        ELSE [n |-> (a.n \div g1) * (b.n \div g2),
              d |-> (a.d \div g2) * (b.d \div g1)]

RDiv(a, b) ==
    RMul(a, IF b.n < 0 THEN [n |-> -b.d, d |-> -b.n] ELSE [n |-> b.d, d |-> b.n])

\* a/b < c/d for b, d > 0, by comparing the integer parts and then the
\* reciprocals of the fractional parts (no product is formed).
RECURSIVE Less(_, _, _, _)
Less(a, b, c, d) ==
    IF a \div b # c \div d THEN a \div b < c \div d
    ELSE IF c % d = 0 THEN FALSE
    ELSE IF a % b = 0 THEN TRUE
    ELSE Less(d, c % d, b, a % b)

RLt(a, b) == Less(a.n, a.d, b.n, b.d)

RLe(a, b) == a = b \/ RLt(a, b)

\* Python's min(a, b) and max(a, b): the first argument wins a tie.
RMin(a, b) == IF RLt(b, a) THEN b ELSE a

RMax(a, b) == IF RLt(a, b) THEN b ELSE a

RAbs(a) == [n |-> Abs(a.n), d |-> a.d]

(***************************************************************************)
(* Python sequence helpers.                                                *)
(***************************************************************************)
\* values[start:] for a Python (0-based, possibly negative) start index.
PySliceFrom(values, start) ==
    LET len  == Len(values)
        from == IF start < 0
                THEN (IF len + start < 0 THEN 0 ELSE len + start)
                ELSE (IF start > len THEN len ELSE start)
    IN  SubSeq(values, from + 1, len)

RECURSIVE SumSeq(_)
SumSeq(s) == IF s = << >> THEN 0 ELSE Head(s) + SumSeq(Tail(s))

(***************************************************************************)
(* indicators.py.  Prices are integers (whole currency units).             *)
(***************************************************************************)
simple_moving_average(values, window) ==
    IF Len(values) < window \/ window <= 0
    THEN None
    ELSE Rat(SumSeq(PySliceFrom(values, -window)), window)

rate_of_change(values, window) ==
    IF Len(values) <= window \/ window <= 0
    THEN None
    ELSE LET past == values[Len(values) - window]
         IN  IF past = 0 THEN None
             ELSE Rat(values[Len(values)] - past, past)

\* indicators.py 40: zip(values[-period-1:-1], values[-period:]) pairs
\* values[i-1] with values[i] for i from this index to the last one.  For
\* period = 0 the first slice is empty and there is no pair; for a period
\* below 0 the slices start at the front of the sequence.
FirstChange(values, period) ==
    IF period > 0 THEN Len(values) - period + 1
    ELSE IF period = 0 THEN Len(values) + 1
    ELSE 1 - period

\* gains and losses over the last `period` changes (indicators.py 38-45)
RECURSIVE Gains(_, _, _)
Gains(values, from, to) ==
    IF from > to THEN 0
    ELSE LET change == values[from] - values[from - 1]
         IN  (IF change > 0 THEN change ELSE 0) + Gains(values, from + 1, to)

RECURSIVE Losses(_, _, _)
Losses(values, from, to) ==
    IF from > to THEN 0
    ELSE LET change == values[from] - values[from - 1]
         IN  (IF change > 0 THEN 0 ELSE -change) + Losses(values, from + 1, to)

\* Mutant: a series without losses is rated neutral (50) instead of 100.
relative_strength_index_neutral(values, period) ==
    IF Len(values) <= period
    THEN None
    ELSE LET gains  == Gains(values, FirstChange(values, period), Len(values))
             losses == Losses(values, FirstChange(values, period), Len(values))
         IN  IF losses = 0 THEN F(50)
             ELSE LET rs == Rat(gains, losses)
                  IN  RSub(F(100), RDiv(F(100), RAdd(F(1), rs)))

\* indicators.py 34-51.
relative_strength_index(values, period) ==
    IF Len(values) <= period
    THEN None
    ELSE LET gains  == Gains(values, FirstChange(values, period), Len(values))
             losses == Losses(values, FirstChange(values, period), Len(values))
         IN  IF losses = 0 THEN F(100)
             ELSE LET rs == Rat(gains, losses)
                  IN  RSub(F(100), RDiv(F(100), RAdd(F(1), rs)))

\* What an indicator leaves behind when it raises instead of returning.
RaisedError == [n |-> 1, d |-> 0]

\* indicators.py 20-22: the loop over values[1:], from position i on.
RECURSIVE EmaFrom(_, _, _, _)
EmaFrom(values, i, ema, k) ==
    IF i > Len(values) THEN ema
    ELSE EmaFrom(values, i + 1,
                 RAdd(RMul(F(values[i]), k), RMul(ema, RSub(F(1), k))), k)

\* Mutant: a window as long as the sequence is not enough.
exponential_moving_average_strict(values, window) ==
    IF Len(values) <= window \/ window <= 0
    THEN None
    ELSE EmaFrom(values, 2, F(values[1]), Rat(2, window + 1))

\* indicators.py 15-23.
exponential_moving_average(values, window) ==
    IF Len(values) < window \/ window <= 0
    THEN None
    ELSE IF values = << >> THEN RaisedError
    ELSE EmaFrom(values, 2, F(values[1]), Rat(2, window + 1))

(***************************************************************************)
(* recommender.py: analyse_asset.  A reason is recorded by a short tag for *)
(* the German sentence the code appends.                                   *)
(***************************************************************************)
short_sma_window == 20
long_sma_window == 50
trend_window == 5
rsi_period == 14

NoSignal == [raised |-> FALSE, buy |-> F(0), sell |-> F(0), reasons |-> << >>]

\* Mutant: the crossover contributes to the opposite side.
SmaSignal_swapped(prices) ==
    LET short_sma == simple_moving_average(prices, short_sma_window)
        long_sma  == simple_moving_average(prices, long_sma_window)
    IN  IF short_sma = None \/ long_sma = None THEN NoSignal
        ELSE IF long_sma.n = 0 THEN [NoSignal EXCEPT !.raised = TRUE]
        ELSE LET delta     == RDiv(RSub(short_sma, long_sma), long_sma)
                 magnitude == RMin(RAbs(delta), Rat(2, 5))
             IN  IF delta.n > 0
                 THEN [NoSignal EXCEPT !.sell = magnitude,
                                       !.reasons = << "sma_downtrend" >>]
                 ELSE IF delta.n < 0
                 THEN [NoSignal EXCEPT !.buy = magnitude,
                                       !.reasons = << "sma_uptrend" >>]
                 ELSE NoSignal

\* recommender.py 42-56: the SMA crossover.  A long average of exactly 0
\* makes line 43 divide by zero.
SmaSignal(prices) ==
    LET short_sma == simple_moving_average(prices, short_sma_window)
        long_sma  == simple_moving_average(prices, long_sma_window)
    IN  IF short_sma = None \/ long_sma = None THEN NoSignal
        ELSE IF long_sma.n = 0 THEN [NoSignal EXCEPT !.raised = TRUE]
        ELSE LET delta     == RDiv(RSub(short_sma, long_sma), long_sma)
                 magnitude == RMin(RAbs(delta), Rat(2, 5))
             IN  IF delta.n > 0
                 THEN [NoSignal EXCEPT !.buy = magnitude,
                                       !.reasons = << "sma_uptrend" >>]
                 ELSE IF delta.n < 0
                 THEN [NoSignal EXCEPT !.sell = magnitude,
                                       !.reasons = << "sma_downtrend" >>]
                 ELSE NoSignal

\* recommender.py 58-73: momentum.
RocSignal(prices) ==
    LET roc == rate_of_change(prices, trend_window)
    IN  IF roc = None THEN NoSignal
        ELSE LET magnitude == RMin(RAbs(roc), Rat(1, 5))
             IN  IF roc.n > 0
                 THEN [NoSignal EXCEPT !.buy = magnitude,
                                       !.reasons = << "roc_positive" >>]
                 ELSE IF roc.n < 0
                 THEN [NoSignal EXCEPT !.sell = magnitude,
                                       !.reasons = << "roc_negative" >>]
                 ELSE NoSignal

\* recommender.py 75-89: RSI.
RsiSignal(prices) ==
    LET rsi == relative_strength_index(prices, rsi_period)
    IN  IF rsi = None THEN NoSignal
        ELSE IF RLt(F(70), rsi)
        THEN [NoSignal EXCEPT
                !.sell = RMin(RDiv(RSub(rsi, F(70)), F(30)), Rat(3, 10)),
                !.reasons = << "rsi_overbought" >>]
        ELSE IF RLt(rsi, F(30))
        THEN [NoSignal EXCEPT
                !.buy = RMin(RDiv(RSub(F(30), rsi), F(30)), Rat(3, 10)),
                !.reasons = << "rsi_oversold" >>]
        ELSE [NoSignal EXCEPT !.reasons = << "rsi_neutral" >>]

\* The locals buy_pressure, sell_pressure and reasons at recommender.py 91.
Pressures(prices) ==
    LET sma == SmaSignal(prices)
        roc == RocSignal(prices)
        rsi == RsiSignal(prices)
    IN  [raised  |-> sma.raised,
         buy     |-> RAdd(RAdd(sma.buy, roc.buy), rsi.buy),
         sell    |-> RAdd(RAdd(sma.sell, roc.sell), rsi.sell),
         reasons |-> sma.reasons \o roc.reasons \o rsi.reasons]

\* Mutant: the base confidence is the floor 0.1.
base_confidence_floor == Rat(1, 10)

\* recommender.py 38.
base_confidence == Rat(1, 5)

\* Mutant: no margin between the pressures is required.
threshold_none == F(0)

\* recommender.py 91.
threshold == Rat(1, 20)

\* What a call of analyse_asset that raises leaves behind instead of a
\* Recommendation.
Raised(name) == [action |-> name, confidence |-> None, reasons |-> << >>]

\* Mutant: the cap at 0.95 is missing.
DirectionalConfidence_uncapped(pressure) == RAdd(base_confidence, pressure)

\* recommender.py 94 and 97: the confidence of a Buy or a Sell.
DirectionalConfidence(pressure) ==
    RMin(RAdd(base_confidence, pressure), Rat(19, 20))

\* recommender.py 100: the confidence of a Hold.
HoldConfidence(buy_pressure, sell_pressure) ==
    RMin(RAdd(base_confidence, RDiv(RMax(buy_pressure, sell_pressure), F(2))),
         Rat(3, 5))

\* recommender.py 24-109.  The Recommendation has the fields action,
\* confidence and reasons (asset is the constant name passed in).
analyse_asset(prices) ==
    LET p == Pressures(prices)
        reasons == IF p.reasons = << >> THEN << "insufficient_data" >>
                   ELSE p.reasons
    IN  IF p.raised THEN Raised("ZeroDivisionError")
        ELSE IF RLt(RAdd(p.sell, threshold), p.buy)
        THEN [action |-> "Buy",
              confidence |-> DirectionalConfidence(p.buy),
              reasons |-> reasons]
        ELSE IF RLt(RAdd(p.buy, threshold), p.sell)
        THEN [action |-> "Sell",
              confidence |-> DirectionalConfidence(p.sell),
              reasons |-> reasons]
        ELSE [action |-> "Hold",
              confidence |-> HoldConfidence(p.buy, p.sell),
              reasons |-> reasons]

IsRecommendation(r) == r.action \in {"Buy", "Sell", "Hold"}

NoRecommendation == [action |-> "None", confidence |-> None, reasons |-> << >>]

(***************************************************************************)
(* Closing-price series used as inputs: the families the checks draw from. *)
(***************************************************************************)
Shapes == {"flat", "rising", "falling", "convex", "concave", "plunge",
           "zigzag", "sawtooth", "negative", "surge"}
Starts == {0, 1, 50, 100}

\* The sum of k \div 8 for k in 1..m: a slowly growing increment.
Ramp(m) ==
    LET q == m \div 8
        r == m % 8
    IN  4 * q * (q - 1) + q * (r + 1)

\* The closing prices of a series of the given shape.  convex, concave and
\* plunge are strictly monotone with growing or shrinking increments.
Series(shape, len, start, step) ==
    [i \in 1..len |->
        CASE shape = "flat"     -> start
          [] shape = "rising"   -> start + step * (i - 1)
          [] shape = "falling"  -> start + step * (len - i)
          [] shape = "convex"   -> start + (i - 1) + step * Ramp(i - 1)
          [] shape = "concave"  ->
                 start + (i - 1) + step * (Ramp(len - 1) - Ramp(len - i))
          [] shape = "plunge"   -> start + (len - i) + step * Ramp(len - i)
          [] shape = "zigzag"   -> start + step * (i % 2)
          [] shape = "sawtooth" -> start + step * (i % 4) + (i \div 4)
          [] shape = "negative" -> 0 - (start + step * (i - 1))
          [] shape = "surge"    ->
                 IF i + short_sma_window <= len THEN start
                 ELSE IF (len - i) % 2 = 0
                 THEN 2 * start + step * (start \div 4)
                 ELSE 2 * start]

(***************************************************************************)
(* live.py: SimulatedMoneroFeed.  A bar is [date, open, high, low, close]  *)
(* with the date in whole minutes; the feed is [limit, index, history].    *)
(* The data set data/monero.json is not part of the sources:               *)
(* SimulationSource stands for its records.  datetime.now() is an input:   *)
(* a reading of the clock, drawn from Clock at every call.                 *)
(***************************************************************************)
MaxClock == 2

Clock == 0..MaxClock

SimulationSource ==
    << [open |-> 100, high |-> 112, low |-> 96, close |-> 110],
       [open |-> 110, high |-> 111, low |-> 100, close |-> 104],
       [open |-> 104, high |-> 130, low |-> 104, close |-> 126],
       [open |-> 126, high |-> 127, low |-> 90, close |-> 92],
       [open |-> 92, high |-> 118, low |-> 92, close |-> 117] >>

NoFeed == [limit |-> 0, index |-> 0, history |-> << >>]

Max2(a, b) == IF a < b THEN b ELSE a

Min2(a, b) == IF b < a THEN b ELSE a

\* live.py 79-93.  previous is << >> for None and << close >> otherwise.
build_bar(timestamp, record, previous) ==
    LET open_price  == IF previous = << >> THEN record.open ELSE previous[1]
        close_price == record.close
    IN  [date  |-> timestamp,
         open  |-> open_price,
         high  |-> Max2(Max2(open_price, close_price), record.high),
         low   |-> Min2(Min2(open_price, close_price), record.low),
         close |-> close_price]

\* live.py 64-67: the record at the index, and the index advanced.
next_record(feed) == SimulationSource[feed.index + 1]

advance(feed) ==
    [feed EXCEPT !.index = (feed.index + 1) % Len(SimulationSource)]

\* live.py 69-77: _seed_history on the fresh feed.  The k-th pass of the
\* loop takes the k-th record (cyclically) and opens at previous_close, the
\* close of the bar built in the pass before, which is the close of the
\* record before.  start_time is now less limit minutes and the k-th bar
\* is stamped start_time + (k - 1) minutes.
seed_history(feed, now) ==
    LET n == Len(SimulationSource)
        start_time == now - feed.limit
    IN  [feed EXCEPT
            !.index = feed.limit % n,
            !.history =
                [k \in 1..feed.limit |->
                    build_bar(start_time + (k - 1),
                              SimulationSource[((k - 1) % n) + 1],
                              IF k = 1 THEN << >>
                              ELSE << SimulationSource[((k - 2) % n) + 1].close >>)]]

\* live.py 43-62: the constructor, for limit > 0 and a loadable data set.
SimulatedMoneroFeed(limit, now) ==
    seed_history([limit |-> limit, index |-> 0, history |-> << >>], now)

\* Mutant: the new bar is stamped with the reading of the clock.
next_timestamp_now(bars, now) == now

\* live.py 104-108: one minute after the last bar, or now if that is later.
next_timestamp(bars, now) ==
    IF bars # << >> THEN Max2(bars[Len(bars)].date + 1, now) ELSE now

\* live.py 100-114: the feed after next_bars.
next_bars(feed, now) ==
    LET previous == IF feed.history = << >> THEN << >>
                    ELSE << feed.history[Len(feed.history)].close >>
        bar      == build_bar(next_timestamp(feed.history, now),
                              next_record(feed), previous)
        grown    == Append(feed.history, bar)
    IN  [advance(feed) EXCEPT
            !.history = IF Len(grown) > feed.limit
                        THEN PySliceFrom(grown, -feed.limit)
                        ELSE grown]

\* data.py 124-127.
closing_prices(bars) == [i \in 1..Len(bars) |-> bars[i].close]

(***************************************************************************)
(* trader.py: the helpers of main.                                         *)
(***************************************************************************)
MIN_ABSOLUTE_TRADE_VALUE_USD == F(10)

\* Mutant: the relative minimum is a hundredth of the price.
MIN_RELATIVE_TRADE_SHARE_hundredth == Rat(1, 100)

\* trader.py 27.
MIN_RELATIVE_TRADE_SHARE == Rat(1, 10)

\* Mutant: only the absolute minimum is applied.
min_trade_value_absolute(price) == MIN_ABSOLUTE_TRADE_VALUE_USD

\* trader.py 296.
min_trade_value(price) ==
    RMax(RMul(price, MIN_RELATIVE_TRADE_SHARE), MIN_ABSOLUTE_TRADE_VALUE_USD)

\* Mutant: the fee is not reserved out of the cash balance.
max_affordable_trade_without_fee(usd, fee) == usd

\* trader.py 322.
max_affordable_trade(usd, fee) == RDiv(usd, RAdd(F(1), fee))

\* Mutant: the proceeds are credited without deducting the fee.
usd_gained_before_fee(usd_before_fee, fee) == usd_before_fee

\* trader.py 359-360.
usd_gained(usd_before_fee, fee) ==
    RSub(usd_before_fee, RMul(usd_before_fee, fee))

\* Mutant: the share gap is applied without the clamp.
unclamped_share_change(max_share_change, share_gap) == share_gap

\* trader.py 320: share_change.
clamped_share_change(max_share_change, share_gap) ==
    RMax(RNeg(max_share_change), RMin(max_share_change, share_gap))

\* Mutant: the deviation is not scaled by the dominant pressure.
target_xmr_share_unscaled(rec) ==
    IF ~({"buy_pressure", "sell_pressure"} \subseteq DOMAIN rec) THEN None
    ELSE LET total_pressure == RAdd(rec.buy_pressure, rec.sell_pressure)
         IN  IF RLe(total_pressure, F(0)) THEN Rat(1, 2)
             ELSE LET bias_ratio ==
                          RDiv(RSub(rec.buy_pressure, rec.sell_pressure),
                               total_pressure)
                  IN  RMin(RMax(RAdd(Rat(1, 2), RMul(Rat(2, 5), bias_ratio)),
                                Rat(1, 10)), Rat(9, 10))

\* Mutant: the configured interval is slept as it is.
retry_wait_unfloored(interval) == interval

\* trader.py 271 and 286: the argument of time.sleep after a skipped cycle.
retry_wait(interval) == RMax(interval, F(1))

\* Mutant: the fee is charged twice.
total_usd_spent_double_fee(usd_to_spend, fee_paid) ==
    RAdd(RAdd(usd_to_spend, fee_paid), fee_paid)

\* trader.py 326.
total_usd_spent(usd_to_spend, fee_paid) == RAdd(usd_to_spend, fee_paid)

\* trader.py 162-176 (the definition in force; 144-158 is the same text).
\* The function reads recommendation.buy_pressure and .sell_pressure: on a
\* Recommendation without these attributes the read raises AttributeError,
\* for which the result is None.
target_xmr_share(rec) ==
    IF ~({"buy_pressure", "sell_pressure"} \subseteq DOMAIN rec) THEN None
    ELSE LET total_pressure == RAdd(rec.buy_pressure, rec.sell_pressure)
         IN  IF RLe(total_pressure, F(0)) THEN Rat(1, 2)
             ELSE LET bias_ratio ==
                          RDiv(RSub(rec.buy_pressure, rec.sell_pressure),
                               total_pressure)
                      dominant_pressure ==
                          RMax(rec.buy_pressure, rec.sell_pressure)
                      dominance_scale ==
                          RMin(RDiv(RMax(dominant_pressure, F(0)), Rat(9, 10)),
                               F(1))
                      deviation ==
                          RMul(RMul(Rat(2, 5), bias_ratio), dominance_scale)
                      target_share == RAdd(Rat(1, 2), deviation)
                  IN  RMin(RMax(target_share, Rat(1, 10)), Rat(9, 10))

\* Mutant: the portfolio return is taken without the "- 1.0".
relative_outperformance_gross(total_value, price, baseline_total, baseline) ==
    IF baseline_total = None \/ baseline = None
       \/ RLe(baseline_total, F(0)) \/ RLe(baseline, F(0))
    THEN None
    ELSE RSub(RDiv(total_value, baseline_total),
              RSub(RDiv(price, baseline), F(1)))

\* trader.py 125-141: _relative_outperformance.
relative_outperformance(total_value, price, baseline_total, baseline) ==
    IF baseline_total = None \/ baseline = None
       \/ RLe(baseline_total, F(0)) \/ RLe(baseline, F(0))
    THEN None
    ELSE RSub(RSub(RDiv(total_value, baseline_total), F(1)),
              RSub(RDiv(price, baseline), F(1)))

\* Mutant: the baseline is taken anew in every cycle.
latch_baseline_every_cycle(baseline_total, baseline, total_value, price) ==
    [total_value |-> total_value, price |-> price]

\* trader.py 297-299: the baseline after the cycle's check.
latch_baseline(baseline_total, baseline, total_value, price) ==
    IF baseline_total = None \/ baseline = None
    THEN [total_value |-> total_value, price |-> price]
    ELSE [total_value |-> baseline_total, price |-> baseline]

NoTrade ==
    [kind |-> "none", xmr |-> F(0), usd |-> F(0), fee |-> F(0),
     share_change |-> None]

\* trader.py 311-373: the trade of one cycle.  kind is "buy" or "sell" for
\* an executed trade, with the asset volume, the cash amount (spent with
\* fee, or gained net of fee) and the fee; "buy_skipped" and "sell_skipped"
\* for a dust trade; "ZeroDivisionError" when a division by a price of 0 is
\* reached.  share_change is the step of line 320, None when the cycle does
\* not compute it.
Rebalance(xmr, usd, price, target, confidence, fraction, fee) ==
    LET \* 324-347, usd_to_spend known
        Buy(usd_to_spend, minimum) ==
            IF RLe(minimum, usd_to_spend)
            THEN IF price.n = 0
                 THEN [NoTrade EXCEPT !.kind = "ZeroDivisionError"]
                 ELSE [kind |-> "buy",
                       xmr  |-> RDiv(usd_to_spend, price),
                       usd  |-> total_usd_spent(usd_to_spend,
                                                RMul(usd_to_spend, fee)),
                       fee  |-> RMul(usd_to_spend, fee),
                       share_change |-> None]
            ELSE IF RLt(F(0), usd_to_spend)
            THEN [NoTrade EXCEPT !.kind = "buy_skipped"]
            ELSE NoTrade
        \* 351-373, usd_before_fee = xmr_to_sell * price known
        Proceeds(xmr_to_sell, usd_before_fee, minimum) ==
            IF RLt(usd_before_fee, minimum)
            THEN [NoTrade EXCEPT !.kind = "sell_skipped"]
            ELSE [kind |-> "sell",
                  xmr  |-> xmr_to_sell,
                  usd  |-> usd_gained(usd_before_fee, fee),
                  fee  |-> RMul(usd_before_fee, fee),
                  share_change |-> None]
        \* 350, xmr_to_sell known
        Sell(xmr_to_sell, minimum) ==
            IF ~RLt(F(0), xmr_to_sell) THEN NoTrade
            ELSE Proceeds(xmr_to_sell, RMul(xmr_to_sell, price),
                          minimum)
        \* 321-349, step = share_change known
        Trade(total_value, step, minimum) ==
            IF RLt(F(0), step) /\ RLt(F(0), usd)
            THEN Buy(RMin(RMul(step, total_value),
                          max_affordable_trade(usd, fee)),
                     minimum)
            ELSE IF RLt(step, F(0)) /\ RLt(F(0), xmr)
            THEN IF price.n = 0
                 THEN [NoTrade EXCEPT !.kind = "ZeroDivisionError"]
                 ELSE Sell(RMin(RDiv(RMul(RNeg(step), total_value),
                                     price), xmr),
                           minimum)
            ELSE NoTrade
        \* 320, the trade together with its share_change
        Clamped(total_value, step, minimum) ==
            [Trade(total_value, step, minimum)
                EXCEPT !.share_change = step]
        \* 319-320, share_gap and max_share_change known
        Step(total_value, share_gap, max_share_change) ==
            IF RLe(Rat(1, 10000), RAbs(share_gap)) /\ RLt(F(0), max_share_change)
            THEN Clamped(total_value,
                         clamped_share_change(max_share_change, share_gap),
                         min_trade_value(price))
            ELSE NoTrade
        \* 311-317, total_value known
        Valued(total_value) ==
            IF RLt(F(0), total_value)
            THEN Step(total_value,
                      RSub(target, RDiv(RMul(xmr, price), total_value)),
                      RMul(fraction, confidence))
            ELSE NoTrade
    IN  Valued(RAdd(usd, RMul(xmr, price)))

\* trader.py 391-428: what main prints after the loop, and its return value.
FinalReport(bars) ==
    IF bars = << >>
    THEN [stdout |-> << "Keine Kursdaten", "Zusammenfassung" >>, status |-> 1]
    ELSE [stdout |-> << "Endstand", "Zusammenfassung" >>, status |-> 0]

\* No indicator function has been called on its own.
NotCalled == [name |-> "none", window |-> 0, value |-> None]

(***************************************************************************)
(* trader.py main, lines 221-250: the state after argument parsing.        *)
(***************************************************************************)
InitRun(a) ==
    /\ args = a
    /\ xmr_balance = a.start_xmr
    /\ usd_balance = a.start_usd
    /\ trade_fraction = RMin(RMax(a.trade_fraction, F(0)), F(1))
    /\ fee_rate = RMax(a.fee_rate, F(0))
    /\ iteration = 0
    /\ history = << >>
    /\ baseline_total_value = None
    /\ baseline_price = None
    /\ simulation_feed = NoFeed
    /\ simulation_active = FALSE
    /\ buy_count = 0
    /\ total_xmr_bought = F(0)
    /\ total_usd_spent_with_fees = F(0)
    /\ total_buy_fees = F(0)
    /\ sell_count = 0
    /\ total_xmr_sold = F(0)
    /\ total_usd_gained_net = F(0)
    /\ total_sell_fees = F(0)
    /\ recommendation = NoRecommendation
    /\ exception = "None"
    /\ stdout = << >>
    /\ exit_status = -1
    /\ slept = None
    /\ polls = 0
    /\ outperformance = None
    /\ share_change = None
    /\ trade_lines = << >>
    /\ cycle_target_share = None
    /\ bars_from = "none"
    /\ indicator = NotCalled
    /\ pc = "fetch"

(***************************************************************************)
(* trader.py main, lines 251-428: the rebalancing loop.                    *)
(*   pc = "fetch"         line 253, about to poll the live feed            *)
(*        "have_history"  line 280, a poll delivered bars                  *)
(*        "sleep_retry"   line 271, in time.sleep after a failed poll      *)
(*        "sleep_wait"    line 286, in time.sleep after too few bars       *)
(*        "sleep_cycle"   line 389, in time.sleep after an ACTIVE cycle    *)
(*        "returned"      main has returned exit_status                    *)
(*        "raised"        `exception` has propagated out of main           *)
(* history holds the closing prices of the bars main holds.                *)
(***************************************************************************)
MaxPolls == 3

Sleeping == {"sleep_retry", "sleep_wait", "sleep_cycle"}

\* What the price API can deliver in one poll: the closing prices of the
\* minute bars, oldest first.
LiveFeeds ==
    { Series("rising", 60, 100, 1), Series("rising", 60, 1, 1),
      Series("falling", 60, 100, 1), Series("flat", 60, 100, 1),
      Series("flat", 60, 0, 1), Series("rising", 2, 100, 1),
      Series("flat", 1, 100, 1) }

\* Mutant: the simulated feed is kept when the live poll succeeds.
feed_kept_after_live_success(feed) == feed

\* trader.py 259: simulation_feed = None after a successful live poll.
feed_after_live_success(feed) == NoFeed

\* trader.py 253, 259-260 with live.py 131-172: the poll succeeds with the
\* last history_limit entries of what the API delivered.
FetchLive ==
    /\ pc = "fetch"
    /\ polls < MaxPolls
    /\ \E feed \in LiveFeeds :
           history' = PySliceFrom(feed, 0 - args.history_limit)
    /\ simulation_feed' = feed_after_live_success(simulation_feed)
    /\ simulation_active' = FALSE
    /\ bars_from' = "live"
    /\ polls' = polls + 1
    /\ pc' = "have_history"
    /\ UNCHANGED << exception, args, trade_fraction, fee_rate, recommendation,
                    xmr_balance, usd_balance, iteration, baseline_total_value,
                    baseline_price, buy_count, total_xmr_bought,
                    total_usd_spent_with_fees, total_buy_fees, sell_count,
                    total_xmr_sold, total_usd_gained_net, total_sell_fees,
                    stdout, exit_status, slept,
                    outperformance, share_change, trade_lines,
                    cycle_target_share, indicator >>

\* trader.py 261-278: the poll raises LiveDataError and the simulated feed
\* (kept from an earlier poll, or built now) delivers the bars.
FetchSimulated ==
    /\ pc = "fetch"
    /\ polls < MaxPolls
    /\ ~(simulation_feed = NoFeed /\ args.history_limit <= 0)
    /\ \E built, polled \in Clock :
       \E feed \in {next_bars(IF simulation_feed = NoFeed
                               THEN SimulatedMoneroFeed(args.history_limit,
                                                        built)
                               ELSE simulation_feed, polled)} :
           /\ simulation_feed' = feed
           /\ history' = closing_prices(feed.history)
    /\ simulation_active' = TRUE
    /\ bars_from' = "simulation"
    /\ polls' = polls + 1
    /\ pc' = "have_history"
    /\ UNCHANGED << exception, args, trade_fraction, fee_rate, recommendation,
                    xmr_balance, usd_balance, iteration, baseline_total_value,
                    baseline_price, buy_count, total_xmr_bought,
                    total_usd_spent_with_fees, total_buy_fees, sell_count,
                    total_xmr_sold, total_usd_gained_net, total_sell_fees,
                    stdout, exit_status, slept,
                    outperformance, share_change, trade_lines,
                    cycle_target_share, indicator >>

\* trader.py 261-272: the poll raises LiveDataError, no simulated feed is
\* kept, and the constructor raises LiveDataError too (the data set cannot
\* be loaded or is empty): sleep max(interval, 1.0), then poll again.
FetchUnavailable ==
    /\ pc = "fetch"
    /\ polls < MaxPolls
    /\ simulation_feed = NoFeed
    /\ args.history_limit > 0
    /\ slept' = retry_wait(args.interval)
    /\ polls' = polls + 1
    /\ pc' = "sleep_retry"
    /\ UNCHANGED << exception, args, trade_fraction, fee_rate, history,
                    recommendation, xmr_balance, usd_balance, iteration,
                    baseline_total_value, baseline_price, simulation_feed,
                    simulation_active, buy_count, total_xmr_bought,
                    total_usd_spent_with_fees, total_buy_fees, sell_count,
                    total_xmr_sold, total_usd_gained_net, total_sell_fees,
                    stdout, exit_status,
                    outperformance, share_change, trade_lines,
                    cycle_target_share, bars_from, indicator >>

\* trader.py 261-265 with live.py 44-45: the poll raises LiveDataError, no
\* simulated feed is kept and history_limit <= 0, so the constructor raises
\* ValueError, which `except LiveDataError` does not catch.
FetchBadLimit ==
    /\ pc = "fetch"
    /\ polls < MaxPolls
    /\ simulation_feed = NoFeed
    /\ args.history_limit <= 0
    /\ exception' = "ValueError"
    /\ polls' = polls + 1
    /\ pc' = "raised"
    /\ UNCHANGED << args, trade_fraction, fee_rate, history,
                    recommendation, xmr_balance, usd_balance, iteration,
                    baseline_total_value, baseline_price, simulation_feed,
                    simulation_active, buy_count, total_xmr_bought,
                    total_usd_spent_with_fees, total_buy_fees, sell_count,
                    total_xmr_sold, total_usd_gained_net, total_sell_fees,
                    stdout, exit_status, slept,
                    outperformance, share_change, trade_lines,
                    cycle_target_share, bars_from, indicator >>

\* trader.py 280-287: fewer bars than min_history.
AwaitData ==
    /\ pc = "have_history"
    /\ Len(history) < args.min_history
    /\ slept' = retry_wait(args.interval)
    /\ pc' = "sleep_wait"
    /\ UNCHANGED << exception, args, trade_fraction, fee_rate, history,
                    recommendation, xmr_balance, usd_balance, iteration,
                    baseline_total_value, baseline_price, simulation_feed,
                    simulation_active, buy_count, total_xmr_bought,
                    total_usd_spent_with_fees, total_buy_fees, sell_count,
                    total_xmr_sold, total_usd_gained_net, total_sell_fees,
                    stdout, exit_status, polls,
                    outperformance, share_change, trade_lines,
                    cycle_target_share, bars_from, indicator >>

\* The outcome of lines 289-389 for the Recommendation `rec` that
\* analyse_asset returned (or its exception): the next value of every
\* variable the cycle writes, and the trade it executed.
CycleOutcome(rec) ==
    LET stay == [pc |-> "raised", exception |-> "None",
                 xmr_balance |-> xmr_balance, usd_balance |-> usd_balance,
                 baseline_total_value |-> baseline_total_value,
                 baseline_price |-> baseline_price,
                 buy |-> NoTrade, sell |-> NoTrade,
                 stdout |-> stdout, exit_status |-> exit_status,
                 slept |-> slept, outperformance |-> outperformance,
                 share_change |-> share_change, trade_lines |-> trade_lines,
                 cycle_target_share |-> cycle_target_share]
        \* 386-389 and 391-428: the end of the cycle
        Ended(after, report) ==
            IF args.iterations # 0 /\ iteration + 1 >= args.iterations
            THEN [after EXCEPT !.pc = "returned",
                               !.stdout = @ \o report.stdout,
                               !.exit_status = report.status]
            ELSE [after EXCEPT !.pc = "sleep_cycle",
                               !.slept = RMax(args.interval, F(0))]
        \* 321-373: the balances after the trade
        Traded(latched, trade) ==
            IF trade.kind = "ZeroDivisionError"
            THEN [latched EXCEPT !.exception = "ZeroDivisionError",
                                 !.share_change = trade.share_change,
                                 !.trade_lines = << >>]
            ELSE IF trade.kind = "buy"
            THEN Ended([latched EXCEPT
                           !.xmr_balance = RAdd(@, trade.xmr),
                           !.usd_balance = RSub(@, trade.usd),
                           !.buy = trade,
                           !.share_change = trade.share_change,
                           !.trade_lines = << "buy" >>],
                       FinalReport(history))
            ELSE IF trade.kind = "sell"
            THEN Ended([latched EXCEPT
                           !.xmr_balance = RSub(@, trade.xmr),
                           !.usd_balance = RAdd(@, trade.usd),
                           !.sell = trade,
                           !.share_change = trade.share_change,
                           !.trade_lines = << "sell" >>],
                       FinalReport(history))
            ELSE Ended([latched EXCEPT
                           !.share_change = trade.share_change,
                           !.trade_lines = IF trade.kind = "none" THEN << >>
                                           ELSE << trade.kind >>],
                       FinalReport(history))
        \* 310: _target_xmr_share
        Targeted(latched, price, target) ==
            IF target = None
            THEN [latched EXCEPT !.exception = "AttributeError"]
            ELSE Traded([latched EXCEPT !.cycle_target_share = target],
                        Rebalance(xmr_balance, usd_balance, price, target,
                                  rec.confidence, trade_fraction, fee_rate))
        \* 300-302: the outperformance against the baseline
        Latched(price, total_value, baseline) ==
            Targeted([stay EXCEPT
                         !.baseline_total_value = baseline.total_value,
                         !.baseline_price = baseline.price,
                         !.outperformance =
                             relative_outperformance(total_value, price,
                                 baseline.total_value, baseline.price)],
                     price, target_xmr_share(rec))
        \* 295-299: total_value and the baseline
        Priced(price, total_value) ==
            Latched(price, total_value,
                    latch_baseline(baseline_total_value, baseline_price,
                                   total_value, price))
        \* 291-292
        Latest(price) ==
            Priced(price, RAdd(usd_balance, RMul(xmr_balance, price)))
    IN  IF ~IsRecommendation(rec)
        THEN [stay EXCEPT !.exception = rec.action]
        ELSE Latest(F(history[Len(history)]))

\* trader.py 289-389 (and 391-428 when the iteration cap ends the loop):
\* one ACTIVE cycle with the Recommendation `rec`.
Cycle(rec) ==
    /\ pc = "have_history"
    /\ Len(history) >= args.min_history
    /\ iteration' = iteration + 1
    /\ recommendation' = rec
    /\ \E out \in {CycleOutcome(rec)} :
           /\ pc' = out.pc
           /\ exception' = out.exception
           /\ xmr_balance' = out.xmr_balance
           /\ usd_balance' = out.usd_balance
           /\ baseline_total_value' = out.baseline_total_value
           /\ baseline_price' = out.baseline_price
           /\ buy_count' = buy_count + (IF out.buy.kind = "buy" THEN 1 ELSE 0)
           /\ total_xmr_bought' = RAdd(total_xmr_bought, out.buy.xmr)
           /\ total_usd_spent_with_fees' =
                  RAdd(total_usd_spent_with_fees, out.buy.usd)
           /\ total_buy_fees' = RAdd(total_buy_fees, out.buy.fee)
           /\ sell_count' =
                  sell_count + (IF out.sell.kind = "sell" THEN 1 ELSE 0)
           /\ total_xmr_sold' = RAdd(total_xmr_sold, out.sell.xmr)
           /\ total_usd_gained_net' =
                  RAdd(total_usd_gained_net, out.sell.usd)
           /\ total_sell_fees' = RAdd(total_sell_fees, out.sell.fee)
           /\ stdout' = out.stdout
           /\ exit_status' = out.exit_status
           /\ slept' = out.slept
           /\ outperformance' = out.outperformance
           /\ share_change' = out.share_change
           /\ trade_lines' = out.trade_lines
           /\ cycle_target_share' = out.cycle_target_share
    /\ UNCHANGED << args, trade_fraction, fee_rate, history, simulation_feed,
                    simulation_active, polls, bars_from, indicator >>

\* trader.py 290: the cycle with what recommender.analyse_asset returns.
ActiveCycle ==
    Cycle(analyse_asset(PySliceFrom(history, 0 - args.min_history)))

\* time.sleep returns: back to the top of the loop.
Wake ==
    /\ pc \in Sleeping
    /\ pc' = "fetch"
    /\ UNCHANGED << exception, args, trade_fraction, fee_rate, history,
                    recommendation, xmr_balance, usd_balance, iteration,
                    baseline_total_value, baseline_price, simulation_feed,
                    simulation_active, buy_count, total_xmr_bought,
                    total_usd_spent_with_fees, total_buy_fees, sell_count,
                    total_xmr_sold, total_usd_gained_net, total_sell_fees,
                    stdout, exit_status, slept, polls,
                    outperformance, share_change, trade_lines,
                    cycle_target_share, bars_from, indicator >>

\* An interrupt signal arrives during time.sleep: Python raises
\* KeyboardInterrupt there, and main has no handler for it (trader.py
\* 251-389 has no try around the sleep, 431-432 none around main).
Interrupt ==
    /\ pc \in Sleeping
    /\ exception' = "KeyboardInterrupt"
    /\ pc' = "raised"
    /\ UNCHANGED << args, trade_fraction, fee_rate, history,
                    recommendation, xmr_balance, usd_balance, iteration,
                    baseline_total_value, baseline_price, simulation_feed,
                    simulation_active, buy_count, total_xmr_bought,
                    total_usd_spent_with_fees, total_buy_fees, sell_count,
                    total_xmr_sold, total_usd_gained_net, total_sell_fees,
                    stdout, exit_status, slept, polls,
                    outperformance, share_change, trade_lines,
                    cycle_target_share, bars_from, indicator >>

\* The command lines of the runs checked.
RunArgs ==
    [min_history : {0, 2, 60}, history_limit : {0, 3, 60},
     interval : {F(0), F(60)}, trade_fraction : {Rat(2, 5)},
     fee_rate : {Rat(1, 1000)}, iterations : {0, 1, 2},
     start_xmr : {F(0), F(1), Rat(4, 5)}, start_usd : {F(0)}]

Init == \E a \in RunArgs : InitRun(a)

Next ==
    \/ FetchLive
    \/ FetchSimulated
    \/ FetchUnavailable
    \/ FetchBadLimit
    \/ AwaitData
    \/ ActiveCycle
    \/ Wake
    \/ Interrupt

Spec == Init /\ [][Next]_vars

(***************************************************************************)
(* SpecPressures: the same loop, run with the Recommendation of spec.md    *)
(* section 3, which carries buy_pressure and sell_pressure besides the     *)
(* four fields of recommender.py 12-17.  With it _target_xmr_share returns *)
(* and the trade of lines 311-373 is executed.                             *)
(***************************************************************************)
\* analyse_asset returning the Recommendation with its two pressures: the
\* values of the locals buy_pressure and sell_pressure at recommender.py 91.
analyse_asset_with_pressures(prices) ==
    LET Extended(rec, p) ==
            IF IsRecommendation(rec)
            THEN [action |-> rec.action, confidence |-> rec.confidence,
                  reasons |-> rec.reasons,
                  buy_pressure |-> p.buy, sell_pressure |-> p.sell]
            ELSE rec
    IN  Extended(analyse_asset(prices), Pressures(prices))

ActiveCyclePressures ==
    Cycle(analyse_asset_with_pressures(PySliceFrom(history, 0 - args.min_history)))

\* What the price API delivers in the runs of SpecPressures.
PressureFeeds ==
    { Series("flat", 60, 100, 1), Series("surge", 60, 100, 2),
      Series("flat", 1, 100, 1) }

FetchLivePressures ==
    /\ pc = "fetch"
    /\ polls < MaxPolls
    /\ \E feed \in PressureFeeds :
           history' = PySliceFrom(feed, 0 - args.history_limit)
    /\ simulation_feed' = feed_after_live_success(simulation_feed)
    /\ simulation_active' = FALSE
    /\ bars_from' = "live"
    /\ polls' = polls + 1
    /\ pc' = "have_history"
    /\ UNCHANGED << exception, args, trade_fraction, fee_rate, recommendation,
                    xmr_balance, usd_balance, iteration, baseline_total_value,
                    baseline_price, buy_count, total_xmr_bought,
                    total_usd_spent_with_fees, total_buy_fees, sell_count,
                    total_xmr_sold, total_usd_gained_net, total_sell_fees,
                    stdout, exit_status, slept,
                    outperformance, share_change, trade_lines,
                    cycle_target_share, indicator >>

\* Command lines with non-negative start balances, a trade fraction inside
\* and outside [0, 1] and fee rates below 0, inside and above [0, 1].
PressureArgs ==
    [min_history : {60}, history_limit : {60},
     interval : {F(-5), F(0), F(60)},
     trade_fraction : {F(0), Rat(2, 5), F(2)},
     fee_rate : {F(-1), Rat(1, 4), F(2)}, iterations : {0, 2},
     start_xmr : {F(0), F(1)}, start_usd : {F(0), F(100), F(1000)}]

InitPressures == \E a \in PressureArgs : InitRun(a)

NextPressures ==
    \/ FetchLivePressures
    \/ FetchUnavailable
    \/ AwaitData
    \/ ActiveCyclePressures
    \/ Wake
    \/ Interrupt

SpecPressures == InitPressures /\ [][NextPressures]_vars

(***************************************************************************)
(* SpecAnalyse: analyse_asset as a function of the closing prices, applied *)
(* to bounded families of price series.                                    *)
(***************************************************************************)
MaxLen == 72
MaxStep == 3

InputSeries ==
    { Series(shape, len, start, step) :
        shape \in Shapes, len \in 0..MaxLen, start \in Starts,
        step \in 1..MaxStep }

InitAnalyse ==
    \E prices \in InputSeries :
        /\ args = [min_history |-> 0, history_limit |-> 0, interval |-> F(0),
                   trade_fraction |-> F(0), fee_rate |-> F(0),
                   iterations |-> 0, start_xmr |-> F(0), start_usd |-> F(0)]
        /\ xmr_balance = F(0)
        /\ usd_balance = F(0)
        /\ trade_fraction = F(0)
        /\ fee_rate = F(0)
        /\ iteration = 0
        /\ history = prices
        /\ baseline_total_value = None
        /\ baseline_price = None
        /\ simulation_feed = NoFeed
        /\ simulation_active = FALSE
        /\ buy_count = 0
        /\ total_xmr_bought = F(0)
        /\ total_usd_spent_with_fees = F(0)
        /\ total_buy_fees = F(0)
        /\ sell_count = 0
        /\ total_xmr_sold = F(0)
        /\ total_usd_gained_net = F(0)
        /\ total_sell_fees = F(0)
        /\ recommendation = NoRecommendation
        /\ exception = "None"
        /\ stdout = << >>
        /\ exit_status = -1
        /\ slept = None
        /\ polls = 0
        /\ outperformance = None
        /\ share_change = None
        /\ trade_lines = << >>
        /\ cycle_target_share = None
        /\ bars_from = "none"
        /\ indicator = NotCalled
        /\ pc = "input"

\* One call of analyse_asset on the series.
Analyse ==
    /\ pc = "input"
    /\ recommendation' = analyse_asset(history)
    /\ exception' = IF IsRecommendation(analyse_asset(history))
                    THEN "None" ELSE "ZeroDivisionError"
    /\ pc' = "analysed"
    /\ UNCHANGED << args, trade_fraction, fee_rate, history, xmr_balance,
                    usd_balance, iteration, baseline_total_value,
                    baseline_price, simulation_feed, simulation_active,
                    buy_count, total_xmr_bought, total_usd_spent_with_fees,
                    total_buy_fees, sell_count, total_xmr_sold,
                    total_usd_gained_net, total_sell_fees, stdout,
                    exit_status, slept, polls,
                    outperformance, share_change, trade_lines,
                    cycle_target_share, bars_from, indicator >>

NextAnalyse == Analyse

SpecAnalyse == InitAnalyse /\ [][NextAnalyse]_vars

(***************************************************************************)
(* Claims about analyse_asset, checked under SpecAnalyse.                  *)
(***************************************************************************)
Analysed == pc = "analysed" /\ IsRecommendation(recommendation)

IsFlat(s) == \A i \in 1..Len(s) : s[i] = s[1]

StrictlyRising(s) == \A i \in 2..Len(s) : s[i - 1] < s[i]

StrictlyFalling(s) == \A i \in 2..Len(s) : s[i - 1] > s[i]

Positive(s) == \A i \in 1..Len(s) : s[i] > 0

\* The SMA crossover magnitude and the momentum magnitude of a series with
\* at least 50 positive prices, from the indicator values.
TrendPressure(s) ==
    LET short_sma == simple_moving_average(s, short_sma_window)
        long_sma  == simple_moving_average(s, long_sma_window)
        roc       == rate_of_change(s, trend_window)
    IN  RAdd(RMin(RAbs(RDiv(RSub(short_sma, long_sma), long_sma)), Rat(2, 5)),
             RMin(RAbs(roc), Rat(1, 5)))

\* C2: whenever analyse_asset returns a Recommendation, its confidence lies
\* in [0.1, 0.95].
C2_ConfidenceInRange ==
    Analysed =>
        /\ RLe(Rat(1, 10), recommendation.confidence)
        /\ RLe(recommendation.confidence, Rat(19, 20))

\* C2 witness: a series whose pressure drives the confidence to the cap.
C2_Witness ==
    /\ Analysed
    /\ recommendation.action \in {"Buy", "Sell"}
    /\ recommendation.confidence = Rat(19, 20)
    /\ RLt(Rat(3, 4), Pressures(history).buy)
       \/ RLt(Rat(3, 4), Pressures(history).sell)

\* C3 (as claimed): a series whose closing prices are all equal yields Hold
\* with a confidence between 0.1 and 0.2.
C3_FlatIsHold ==
    (pc = "analysed" /\ IsFlat(history)) =>
        /\ recommendation.action = "Hold"
        /\ RLe(Rat(1, 10), recommendation.confidence)
        /\ RLe(recommendation.confidence, Rat(1, 5))

\* C4 (as claimed): every strictly rising series with at least 70 points
\* yields Buy with confidence > 0.2 and the SMA uptrend reason.
C4_RisingIsBuy ==
    (pc = "analysed" /\ Len(history) >= 70 /\ StrictlyRising(history)) =>
        /\ recommendation.action = "Buy"
        /\ RLt(Rat(1, 5), recommendation.confidence)
        /\ \E i \in DOMAIN recommendation.reasons :
               recommendation.reasons[i] = "sma_uptrend"

\* C4 (amended): for a strictly rising series of positive prices with at
\* least 70 points the reasons are the SMA uptrend, the positive momentum
\* and the RSI overbought reason (RSI is 100 and puts 0.3 on the sell side);
\* the action is Buy exactly when the SMA and momentum pressure exceeds
\* 0.35, Sell exactly when it is below 0.25 and Hold in between, and a Buy
\* has confidence > 0.2.
C4_RisingAmended ==
    (pc = "analysed" /\ Len(history) >= 70 /\ StrictlyRising(history)
       /\ Positive(history)) =>
        /\ recommendation.reasons =
               << "sma_uptrend", "roc_positive", "rsi_overbought" >>
        /\ recommendation.action = "Buy"
               <=> RLt(Rat(7, 20), TrendPressure(history))
        /\ recommendation.action = "Sell"
               <=> RLt(TrendPressure(history), Rat(1, 4))
        /\ recommendation.action = "Buy"
               => RLt(Rat(1, 5), recommendation.confidence)

\* C4 witness: a strictly rising positive series of 70 or more points that
\* is analysed as Buy.
C4_Witness ==
    /\ Analysed
    /\ Len(history) >= 70 /\ StrictlyRising(history) /\ Positive(history)
    /\ recommendation.action = "Buy"
    /\ RLt(Rat(1, 5), recommendation.confidence)

\* C5 (as claimed): every strictly falling series of positive prices with at
\* least 70 points yields Sell.
C5_FallingIsSell ==
    (pc = "analysed" /\ Len(history) >= 70 /\ StrictlyFalling(history)
       /\ Positive(history)) =>
        recommendation.action = "Sell"

\* C5 (amended): for a strictly falling series of positive prices with at
\* least 70 points the reasons are the SMA downtrend, the negative momentum
\* and the RSI oversold reason (RSI is 0 and puts 0.3 on the buy side); the
\* action is Sell exactly when the SMA and momentum pressure exceeds 0.35,
\* Buy exactly when it is below 0.25 and Hold in between.
C5_FallingAmended ==
    (pc = "analysed" /\ Len(history) >= 70 /\ StrictlyFalling(history)
       /\ Positive(history)) =>
        /\ recommendation.reasons =
               << "sma_downtrend", "roc_negative", "rsi_oversold" >>
        /\ recommendation.action = "Sell"
               <=> RLt(Rat(7, 20), TrendPressure(history))
        /\ recommendation.action = "Buy"
               <=> RLt(TrendPressure(history), Rat(1, 4))

\* C5 witness: a strictly falling positive series of 70 or more points that
\* is analysed as Sell.
C5_Witness ==
    /\ Analysed
    /\ Len(history) >= 70 /\ StrictlyFalling(history) /\ Positive(history)
    /\ recommendation.action = "Sell"

(***************************************************************************)
(* Claims about the rebalancing loop.                                      *)
(***************************************************************************)
Printed(line) == \E i \in DOMAIN stdout : stdout[i] = line

Ended == pc \in {"returned", "raised"}

C6_AfterFirstCycle ==
    /\ args.start_xmr = F(1) /\ args.start_usd = F(0)
    /\ trade_fraction = Rat(2, 5) /\ fee_rate = Rat(1, 1000)
    /\ Len(history) = 60 /\ StrictlyRising(history)
    /\ iteration = 1
    /\ pc \in {"sleep_cycle", "returned", "raised"}

\* C6 (as claimed, under Spec): in that scenario the first ACTIVE cycle
\* sells: the asset balance has decreased by the sold volume, the cash
\* balance is volume * price * (1 - fee_rate) and the sell counter is 1.
C6_FirstCycleSells ==
    C6_AfterFirstCycle =>
        /\ sell_count = 1
        /\ RLt(xmr_balance, F(1))
        /\ usd_balance =
               RMul(RMul(RSub(F(1), xmr_balance), F(history[Len(history)])),
                    RSub(F(1), fee_rate))

\* C7 (as claimed, under Spec): a run interrupted during the sleep between
\* two cycles has printed the lifetime trade summary, and the final
\* valuation when it holds a price.
C7_InterruptStillReports ==
    exception = "KeyboardInterrupt" =>
        /\ Printed("Zusammenfassung")
        /\ history # << >> => Printed("Endstand")

\* C8 (as claimed, under Spec): a poll never ends the loop: it delivers
\* bars, or the loop sleeps to poll again; and a poll that delivered fewer
\* than min_history bars is followed by the sleep.
C8_PollNeverAborts ==
    [][/\ pc = "fetch" => pc' \in {"have_history", "sleep_retry"}
       /\ (pc = "have_history" /\ Len(history) < args.min_history)
              => pc' = "sleep_wait"]_vars

\* C9 (as claimed, under Spec): a run that has ended without the feed ever
\* having produced data has printed the failure message and the lifetime
\* trade summary, and its exit status is not 0.
C9_NoDataReportsFailure ==
    (Ended /\ history = << >>) =>
        /\ Printed("Keine Kursdaten")
        /\ Printed("Zusammenfassung")
        /\ exit_status # 0

\* C10 (as claimed, under Spec): with an iteration count N > 0 the run has
\* returned, with the summary printed, once N ACTIVE cycles are counted and
\* not before; with N = 0 it never returns.
C10_IterationCap ==
    /\ (args.iterations > 0 /\ iteration >= args.iterations)
           => (pc = "returned" /\ Printed("Zusammenfassung"))
    /\ (args.iterations > 0 /\ iteration < args.iterations)
           => pc # "returned"
    /\ args.iterations = 0 => pc # "returned"

\* The latest price held, and the value of the portfolio at that price.
LatestPrice == F(history[Len(history)])

TotalValue == RAdd(usd_balance, RMul(xmr_balance, LatestPrice))

C12_LatchOutperformanceZero ==
    (iteration = 1 /\ IsRecommendation(recommendation)) =>
        outperformance = F(0)

\* C12 (amended): after the cycle that latches the baseline the
\* outperformance is exactly 0 when the latched total value and price are
\* both positive, and None (nothing is reported) otherwise.
C12_LatchOutperformanceAmended ==
    (iteration = 1 /\ IsRecommendation(recommendation)) =>
        IF RLt(F(0), baseline_total_value) /\ RLt(F(0), baseline_price)
        THEN outperformance = F(0)
        ELSE outperformance = None

\* C12 witness: a latch cycle with a positive baseline.
C12_Witness ==
    /\ iteration = 1 /\ IsRecommendation(recommendation)
    /\ RLt(F(0), baseline_total_value) /\ RLt(F(0), baseline_price)
    /\ outperformance = F(0)

\* One ACTIVE cycle has run to its end in this step.
CycleStep == iteration' = iteration + 1 /\ pc' \in {"sleep_cycle", "returned"}

Portfolio ==
    << xmr_balance, usd_balance, buy_count, total_xmr_bought,
       total_usd_spent_with_fees, total_buy_fees, sell_count, total_xmr_sold,
       total_usd_gained_net, total_sell_fees >>

\* max(price * 0.10, 10.0) at the latest price.
DustLimit == RMax(RMul(LatestPrice, Rat(1, 10)), F(10))

\* The capped spend of a buy with the given step, and the proceeds of a sell
\* with it, from the balances before the cycle.
CappedSpend(step) ==
    RMin(RMul(step, TotalValue), RDiv(usd_balance, RAdd(F(1), fee_rate)))

SellVolume(step) ==
    RMin(RDiv(RMul(RNeg(step), TotalValue), LatestPrice), xmr_balance)

SellCounters ==
    << sell_count, total_xmr_sold, total_usd_gained_net, total_sell_fees >>

BuyCounters ==
    << buy_count, total_xmr_bought, total_usd_spent_with_fees,
       total_buy_fees >>

\* The effect of an executed buy of the given spend on the state.
BuyEffect(spend) ==
    /\ usd_balance' = RSub(usd_balance, RAdd(spend, RMul(spend, fee_rate)))
    /\ xmr_balance' = RAdd(xmr_balance, RDiv(spend, LatestPrice))
    /\ buy_count' = buy_count + 1
    /\ total_xmr_bought' = RAdd(total_xmr_bought, RDiv(spend, LatestPrice))
    /\ total_usd_spent_with_fees' =
           RAdd(total_usd_spent_with_fees, RAdd(spend, RMul(spend, fee_rate)))
    /\ total_buy_fees' = RAdd(total_buy_fees, RMul(spend, fee_rate))
    /\ SellCounters' = SellCounters

SellEffect(volume) ==
    /\ xmr_balance' = RSub(xmr_balance, volume)
    /\ usd_balance' =
           RAdd(usd_balance,
                RSub(RMul(volume, LatestPrice),
                     RMul(RMul(volume, LatestPrice), fee_rate)))
    /\ sell_count' = sell_count + 1
    /\ total_xmr_sold' = RAdd(total_xmr_sold, volume)
    /\ total_usd_gained_net' =
           RAdd(total_usd_gained_net,
                RSub(RMul(volume, LatestPrice),
                     RMul(RMul(volume, LatestPrice), fee_rate)))
    /\ total_sell_fees' =
           RAdd(total_sell_fees, RMul(RMul(volume, LatestPrice), fee_rate))
    /\ BuyCounters' = BuyCounters

CurrentShare ==
    IF RLe(TotalValue, F(0)) THEN F(0)
    ELSE RDiv(RMul(xmr_balance, LatestPrice), TotalValue)

ShareGap == RSub(target_xmr_share(recommendation'), CurrentShare)

MaxStep16 == RMul(trade_fraction, recommendation'.confidence)

NoTradeCase == RLt(RAbs(ShareGap), Rat(1, 10000)) \/ RLe(MaxStep16, F(0))

MaxPressure == 24
PressureScale == 20

PressureInputs ==
    { [action |-> "Hold", confidence |-> Rat(1, 5), reasons |-> << >>,
       buy_pressure |-> Rat(b, PressureScale),
       sell_pressure |-> Rat(s, PressureScale)] :
        b \in 0..MaxPressure, s \in 0..MaxPressure }

InitTarget ==
    \E rec \in PressureInputs :
        /\ args = [min_history |-> 0, history_limit |-> 0, interval |-> F(0),
                   trade_fraction |-> F(0), fee_rate |-> F(0),
                   iterations |-> 0, start_xmr |-> F(0), start_usd |-> F(0)]
        /\ xmr_balance = F(0)
        /\ usd_balance = F(0)
        /\ trade_fraction = F(0)
        /\ fee_rate = F(0)
        /\ iteration = 0
        /\ history = << >>
        /\ baseline_total_value = None
        /\ baseline_price = None
        /\ simulation_feed = NoFeed
        /\ simulation_active = FALSE
        /\ buy_count = 0
        /\ total_xmr_bought = F(0)
        /\ total_usd_spent_with_fees = F(0)
        /\ total_buy_fees = F(0)
        /\ sell_count = 0
        /\ total_xmr_sold = F(0)
        /\ total_usd_gained_net = F(0)
        /\ total_sell_fees = F(0)
        /\ recommendation = rec
        /\ exception = "None"
        /\ stdout = << >>
        /\ exit_status = -1
        /\ slept = None
        /\ polls = 0
        /\ outperformance = None
        /\ share_change = None
        /\ trade_lines = << >>
        /\ cycle_target_share = None
        /\ bars_from = "none"
        /\ indicator = NotCalled
        /\ pc = "input_pressures"

\* One call of _target_xmr_share on the Recommendation.
Target ==
    /\ pc = "input_pressures"
    /\ cycle_target_share' = target_xmr_share(recommendation)
    /\ pc' = "targeted"
    /\ UNCHANGED << exception, args, trade_fraction, fee_rate, history,
                    recommendation, xmr_balance, usd_balance, iteration,
                    baseline_total_value, baseline_price, simulation_feed,
                    simulation_active, buy_count, total_xmr_bought,
                    total_usd_spent_with_fees, total_buy_fees, sell_count,
                    total_xmr_sold, total_usd_gained_net, total_sell_fees,
                    stdout, exit_status, slept, polls, outperformance,
                    share_change, trade_lines, bars_from, indicator >>

NextTarget == Target

SpecTarget == InitTarget /\ [][NextTarget]_vars

\* clamp(0.5 + 0.4 * bias * dominance, 0.1, 0.9) for pressures not both 0.
ClaimedTarget(buy, sell) ==
    LET bias == RDiv(RSub(buy, sell), RAdd(buy, sell))
        dominance ==
            RMax(F(0), RMin(F(1), RDiv(RMax(buy, sell), Rat(9, 10))))
    IN  RMax(Rat(1, 10),
             RMin(Rat(9, 10),
                  RAdd(Rat(1, 2), RMul(RMul(Rat(2, 5), bias), dominance))))

Clamp(x, lo, hi) == RMax(lo, RMin(hi, x))

\* C18 (under SpecAnalyse): the action is Buy exactly when buy_pressure >
\* sell_pressure + 0.05, with confidence clamp(0.2 + buy_pressure, 0.1,
\* 0.95); Sell exactly when sell_pressure > buy_pressure + 0.05, with
\* confidence clamp(0.2 + sell_pressure, 0.1, 0.95); Hold in every other
\* case, with confidence clamp(0.2 + max(buy, sell) / 2, 0.1, 0.6).
C18_ResolutionRule ==
    Analysed =>
        IF RLt(RAdd(Pressures(history).sell, Rat(1, 20)),
               Pressures(history).buy)
        THEN /\ recommendation.action = "Buy"
             /\ recommendation.confidence =
                    Clamp(RAdd(Rat(1, 5), Pressures(history).buy),
                          Rat(1, 10), Rat(19, 20))
        ELSE IF RLt(RAdd(Pressures(history).buy, Rat(1, 20)),
                    Pressures(history).sell)
        THEN /\ recommendation.action = "Sell"
             /\ recommendation.confidence =
                    Clamp(RAdd(Rat(1, 5), Pressures(history).sell),
                          Rat(1, 10), Rat(19, 20))
        ELSE /\ recommendation.action = "Hold"
             /\ recommendation.confidence =
                    Clamp(RAdd(Rat(1, 5),
                               RDiv(RMax(Pressures(history).buy,
                                         Pressures(history).sell), F(2))),
                          Rat(1, 10), Rat(3, 5))

\* C18 witness: a Hold although one pressure is the larger one, the
\* difference being within the threshold.
C18_Witness ==
    /\ Analysed
    /\ recommendation.action = "Hold"
    /\ RLt(Pressures(history).sell, Pressures(history).buy)
    /\ RLt(Rat(1, 5), recommendation.confidence)


\* None of SMA(20), SMA(50), ROC(5), RSI(14) is available for the series.
NoIndicator ==
    /\ simple_moving_average(history, 20) = None
    /\ simple_moving_average(history, 50) = None
    /\ rate_of_change(history, 5) = None
    /\ relative_strength_index(history, 14) = None

\* C19 as stated (under SpecAnalyse): without any indicator analyse_asset
\* returns Hold at confidence 0.1 with the single insufficient-data reason.
C19_NoIndicatorFloor ==
    (pc = "analysed" /\ NoIndicator) =>
        /\ recommendation.action = "Hold"
        /\ recommendation.confidence = Rat(1, 10)
        /\ recommendation.reasons = << "insufficient_data" >>

\* C19 amended (under SpecAnalyse): without any indicator analyse_asset
\* returns Hold at the base confidence 0.2 with the single
\* insufficient-data reason.
C19_NoIndicatorBase ==
    (pc = "analysed" /\ NoIndicator) =>
        /\ recommendation.action = "Hold"
        /\ recommendation.confidence = Rat(1, 5)
        /\ recommendation.reasons = << "insufficient_data" >>

\* C19 witness: a series long enough for ROC(5) whose price five bars back
\* is 0, so that ROC is unavailable like the other indicators.
C19_Witness ==
    /\ pc = "analysed"
    /\ NoIndicator
    /\ Len(history) > 5
    /\ recommendation.action = "Hold"
    /\ recommendation.reasons = << "insufficient_data" >>


\* The pressures the aggregation rule of C20 gives for the indicator values
\* short, long, roc and rsi (None for an unavailable indicator); long is
\* not 0 here.
ClaimedBuy(short, long, roc, rsi) ==
    RAdd(RAdd(IF short # None /\ long # None /\ RLt(long, short)
              THEN RMin(RAbs(RDiv(RSub(short, long), long)), Rat(2, 5))
              ELSE F(0),
              IF roc # None /\ RLt(F(0), roc)
              THEN RMin(RAbs(roc), Rat(1, 5)) ELSE F(0)),
         IF rsi # None /\ RLt(rsi, F(30))
         THEN RMin(RDiv(RSub(F(30), rsi), F(30)), Rat(3, 10)) ELSE F(0))

ClaimedSell(short, long, roc, rsi) ==
    RAdd(RAdd(IF short # None /\ long # None /\ RLt(short, long)
              THEN RMin(RAbs(RDiv(RSub(short, long), long)), Rat(2, 5))
              ELSE F(0),
              IF roc # None /\ RLt(roc, F(0))
              THEN RMin(RAbs(roc), Rat(1, 5)) ELSE F(0)),
         IF rsi # None /\ RLt(F(70), rsi)
         THEN RMin(RDiv(RSub(rsi, F(70)), F(30)), Rat(3, 10)) ELSE F(0))

Aggregated(short, long, roc, rsi) ==
    /\ IsRecommendation(recommendation)
    /\ Pressures(history).buy = ClaimedBuy(short, long, roc, rsi)
    /\ Pressures(history).sell = ClaimedSell(short, long, roc, rsi)
    /\ RLe(F(0), Pressures(history).buy)
    /\ RLe(Pressures(history).buy, Rat(9, 10))
    /\ RLe(F(0), Pressures(history).sell)
    /\ RLe(Pressures(history).sell, Rat(9, 10))
    /\ (\E i \in 1..Len(recommendation.reasons) :
            recommendation.reasons[i] = "rsi_neutral")
       <=> (rsi # None /\ RLe(F(30), rsi) /\ RLe(rsi, F(70)))

\* C20 (under SpecAnalyse): analyse_asset accumulates, for every series,
\* min(|(short-long)/long|, 0.4) on the buy side when short > long and on
\* the sell side when short < long, min(|roc|, 0.2) on the buy side when
\* roc > 0 and on the sell side when roc < 0, min((rsi-70)/30, 0.3) on the
\* sell side when rsi > 70 and min((30-rsi)/30, 0.3) on the buy side when
\* rsi < 30, only the neutral reason for 30 <= rsi <= 70 and nothing for an
\* unavailable indicator, so that both pressures lie in [0, 0.9].
C20_PressureAggregation ==
    pc = "analysed" =>
        /\ Pressures(history).raised = FALSE
        /\ Aggregated(simple_moving_average(history, short_sma_window),
                      simple_moving_average(history, long_sma_window),
                      rate_of_change(history, trend_window),
                      relative_strength_index(history, rsi_period))

\* The same for the series with positive prices only.
C20_PositivePrices ==
    (pc = "analysed" /\ Positive(history)) =>
        /\ Pressures(history).raised = FALSE
        /\ Aggregated(simple_moving_average(history, short_sma_window),
                      simple_moving_average(history, long_sma_window),
                      rate_of_change(history, trend_window),
                      relative_strength_index(history, rsi_period))


(***************************************************************************)
(* indicators.py on its own: SpecIndicators calls one of the four          *)
(* indicator functions on every sequence of up to MaxValues prices from    *)
(* IndicatorPrices, with every window from -1 to MaxWindow.                *)
(***************************************************************************)
MaxValues == 4
MaxWindow == 4
IndicatorPrices == {0, 1, 2}

RECURSIVE SeqsUpTo(_)
SeqsUpTo(n) ==
    IF n = 0 THEN {<< >>}
    ELSE LET shorter == SeqsUpTo(n - 1)
         IN  shorter \cup { Append(s, v) : s \in shorter, v \in IndicatorPrices }

InitIndicators ==
    \E values \in SeqsUpTo(MaxValues), window \in -1..MaxWindow :
        /\ args = [min_history |-> 0, history_limit |-> 0, interval |-> F(0),
                   trade_fraction |-> F(0), fee_rate |-> F(0),
                   iterations |-> 0, start_xmr |-> F(0), start_usd |-> F(0)]
        /\ xmr_balance = F(0)
        /\ usd_balance = F(0)
        /\ trade_fraction = F(0)
        /\ fee_rate = F(0)
        /\ iteration = 0
        /\ history = values
        /\ baseline_total_value = None
        /\ baseline_price = None
        /\ simulation_feed = NoFeed
        /\ simulation_active = FALSE
        /\ buy_count = 0
        /\ total_xmr_bought = F(0)
        /\ total_usd_spent_with_fees = F(0)
        /\ total_buy_fees = F(0)
        /\ sell_count = 0
        /\ total_xmr_sold = F(0)
        /\ total_usd_gained_net = F(0)
        /\ total_sell_fees = F(0)
        /\ recommendation = NoRecommendation
        /\ exception = "None"
        /\ stdout = << >>
        /\ exit_status = -1
        /\ slept = None
        /\ polls = 0
        /\ outperformance = None
        /\ share_change = None
        /\ trade_lines = << >>
        /\ cycle_target_share = None
        /\ bars_from = "none"
        /\ indicator = [NotCalled EXCEPT !.window = window]
        /\ pc = "input_values"

\* One call of the indicator function `name`, with result `value`.
Call(name, value) ==
    /\ pc = "input_values"
    /\ indicator' = [indicator EXCEPT !.name = name, !.value = value]
    /\ pc' = "called"
    /\ UNCHANGED << exception, args, trade_fraction, fee_rate, history,
                    recommendation, xmr_balance, usd_balance, iteration,
                    baseline_total_value, baseline_price, simulation_feed,
                    simulation_active, buy_count, total_xmr_bought,
                    total_usd_spent_with_fees, total_buy_fees, sell_count,
                    total_xmr_sold, total_usd_gained_net, total_sell_fees,
                    stdout, exit_status, slept, polls, outperformance,
                    share_change, trade_lines, cycle_target_share,
                    bars_from >>

CallSma == Call("sma", simple_moving_average(history, indicator.window))

CallEma == Call("ema", exponential_moving_average(history, indicator.window))

CallRoc == Call("roc", rate_of_change(history, indicator.window))

CallRsi == Call("rsi", relative_strength_index(history, indicator.window))

NextIndicators == CallSma \/ CallEma \/ CallRoc \/ CallRsi

SpecIndicators == InitIndicators /\ [][NextIndicators]_vars

Called(name) == pc = "called" /\ indicator.name = name

\* C21 (under SpecIndicators): SMA and EMA are unavailable exactly when
\* len(values) < window or window <= 0; ROC exactly when len(values) <=
\* window, window <= 0 or values[-window-1] is 0; RSI exactly when
\* len(values) <= period; and no call raises.
C21_Availability ==
    /\ pc = "called" => indicator.value # RaisedError
    /\ (Called("sma") \/ Called("ema")) =>
           (indicator.value = None
               <=> (Len(history) < indicator.window \/ indicator.window <= 0))
    /\ Called("roc") =>
           (indicator.value = None
               <=> \/ Len(history) <= indicator.window
                   \/ indicator.window <= 0
                   \/ history[Len(history) - indicator.window] = 0)
    /\ Called("rsi") =>
           (indicator.value = None <=> Len(history) <= indicator.window)

\* C21 witness: EMA on a sequence exactly as long as its window is
\* available.
C21_Witness ==
    /\ Called("ema")
    /\ indicator.window >= 2
    /\ Len(history) = indicator.window
    /\ indicator.value # None


\* The last `period` changes of the sequence, oldest first.
LastChanges(values, period) ==
    [k \in 1..period |->
        values[Len(values) - period + k] - values[Len(values) - period + k - 1]]

RECURSIVE SumOfGains(_)
SumOfGains(changes) ==
    IF changes = << >> THEN 0
    ELSE (IF Head(changes) > 0 THEN Head(changes) ELSE 0)
         + SumOfGains(Tail(changes))

RECURSIVE SumOfLosses(_)
SumOfLosses(changes) ==
    IF changes = << >> THEN 0
    ELSE (IF Head(changes) < 0 THEN 0 - Head(changes) ELSE 0)
         + SumOfLosses(Tail(changes))

LastBars(n) == SubSeq(history, Len(history) - n + 1, Len(history))

SkippedCycle ==
    pc \in {"fetch", "have_history"} /\ pc' \in {"sleep_retry", "sleep_wait"}

\* C24 (under Spec): a skipped cycle leaves the balances, the baseline, the
\* trade counters and totals and the iteration counter as they were, and
\* only a cycle with at least min_history bars counts as an iteration and
\* computes a recommendation, which is that of the most recent min_history
\* bars.
C24_SkippedCycleFrame ==
    [][/\ SkippedCycle =>
              /\ Portfolio' = Portfolio
              /\ baseline_total_value' = baseline_total_value
              /\ baseline_price' = baseline_price
              /\ iteration' = iteration
              /\ recommendation' = recommendation
       /\ (iteration' # iteration \/ recommendation' # recommendation) =>
              /\ pc = "have_history"
              /\ iteration' = iteration + 1
              /\ Len(history) >= args.min_history
              /\ recommendation' = analyse_asset(LastBars(args.min_history))]_vars

\* The same for runs with min_history >= 1.
C24_PositiveMinHistory ==
    [][args.min_history >= 1 =>
          /\ SkippedCycle =>
                 /\ Portfolio' = Portfolio
                 /\ baseline_total_value' = baseline_total_value
                 /\ baseline_price' = baseline_price
                 /\ iteration' = iteration
                 /\ recommendation' = recommendation
          /\ (iteration' # iteration \/ recommendation' # recommendation) =>
                 /\ pc = "have_history"
                 /\ iteration' = iteration + 1
                 /\ Len(history) >= args.min_history
                 /\ recommendation' =
                        analyse_asset(LastBars(args.min_history))]_vars


\* The balances are the start balances plus what was bought and gained
\* minus what was sold and spent.
Conserved ==
    /\ xmr_balance =
           RSub(RAdd(args.start_xmr, total_xmr_bought), total_xmr_sold)
    /\ usd_balance =
           RAdd(RSub(args.start_usd, total_usd_spent_with_fees),
                total_usd_gained_net)

\* The same after the step.
ConservedAfter ==
    /\ xmr_balance' =
           RSub(RAdd(args.start_xmr, total_xmr_bought'), total_xmr_sold')
    /\ usd_balance' =
           RAdd(RSub(args.start_usd, total_usd_spent_with_fees'),
                total_usd_gained_net')

\* No counter or total is lower after the step than before it, and the two
\* counts grow by 1 exactly in a cycle that executes a buy or a sell.
Counted ==
    /\ buy_count' =
           buy_count + (IF CycleStep /\ trade_lines' = << "buy" >>
                        THEN 1 ELSE 0)
    /\ sell_count' =
           sell_count + (IF CycleStep /\ trade_lines' = << "sell" >>
                         THEN 1 ELSE 0)
    /\ RLe(total_xmr_bought, total_xmr_bought')
    /\ RLe(total_usd_spent_with_fees, total_usd_spent_with_fees')
    /\ RLe(total_buy_fees, total_buy_fees')
    /\ RLe(total_xmr_sold, total_xmr_sold')
    /\ RLe(total_usd_gained_net, total_usd_gained_net')
    /\ RLe(total_sell_fees, total_sell_fees')

C25_FeeAtMostOne ==
    [][/\ Conserved
       /\ ConservedAfter
       /\ RLe(fee_rate, F(1)) => Counted]_vars


\* The fee paid in this step, and the notional traded before fee: what the
\* buy totals show as spent without its fee, or what the sell totals show
\* as gained with its fee added back.
FeePaid ==
    RAdd(RSub(total_buy_fees', total_buy_fees),
         RSub(total_sell_fees', total_sell_fees))

Notional ==
    RAdd(RSub(RSub(total_usd_spent_with_fees', total_usd_spent_with_fees),
              RSub(total_buy_fees', total_buy_fees)),
         RAdd(RSub(total_usd_gained_net', total_usd_gained_net),
              RSub(total_sell_fees', total_sell_fees)))

BuyExecuted == buy_count' = buy_count + 1

SellExecuted == sell_count' = sell_count + 1

C28_Total ==
    pc = "analysed" =>
        (exception = "None" /\ IsRecommendation(recommendation))


(***************************************************************************)
(* Claims about the simulated fallback, checked under Spec.                *)
(***************************************************************************)
Polled == polls' = polls + 1

LiveSucceeded == Polled /\ bars_from' = "live" /\ pc' = "have_history"

SimulationDelivered ==
    Polled /\ bars_from' = "simulation" /\ pc' = "have_history"

\* The feed `after` is the feed `before` advanced by one bar: the index
\* moved one record on (cyclically), the oldest bar left, the others moved
\* up and the new last bar closes at the record the index pointed to.
AdvancedByOneBar(before, after) ==
    /\ after.limit = before.limit
    /\ after.index = (before.index + 1) % Len(SimulationSource)
    /\ Len(after.history) = Len(before.history)
    /\ \A i \in 1..(Len(after.history) - 1) :
           after.history[i] = before.history[i + 1]
    /\ after.history[Len(after.history)].close =
           SimulationSource[before.index + 1].close

\* C29 (under Spec): simulation_active is set exactly when the bars of the
\* cycle came from the simulated feed, and then a simulated feed exists;
\* the first failed live poll builds a feed of history_limit bars and
\* advances it by one bar; a following failed poll advances that same feed
\* by one more bar; a successful live poll discards the feed, so that the
\* next failure starts from a fresh one.
C29_SimulationLifecycle ==
    [][/\ simulation_active' <=> bars_from' = "simulation"
       /\ simulation_active' => simulation_feed' # NoFeed
       /\ LiveSucceeded =>
              (simulation_feed' = NoFeed /\ ~simulation_active')
       /\ SimulationDelivered =>
              /\ history' = closing_prices(simulation_feed'.history)
              /\ \E built \in Clock :
                     AdvancedByOneBar(
                         IF simulation_feed = NoFeed
                         THEN SimulatedMoneroFeed(args.history_limit, built)
                         ELSE simulation_feed,
                         simulation_feed')
       /\ (Polled /\ ~LiveSucceeded /\ ~SimulationDelivered) =>
              /\ simulation_feed' = simulation_feed
              /\ simulation_active' = simulation_active
              /\ simulation_feed = NoFeed]_vars

\* C29 witness: three failed live polls in a row with history_limit 3; the
\* feed built at the first one has been advanced three times in all.
C29_Witness ==
    /\ polls = 3
    /\ simulation_active
    /\ bars_from = "simulation"
    /\ simulation_feed.limit = 3
    /\ simulation_feed.index = 1
    /\ history = << 92, 117, 110 >>


(***************************************************************************)
(* SpecFeed: live.py 40-114 on its own.  SimulatedMoneroFeed(limit) is     *)
(* constructed for a limit in 0..MaxLimit and next_bars is called up to    *)
(* MaxCalls times, each call with its own reading of the clock;            *)
(* args.history_limit holds the limit, simulation_feed the feed, history   *)
(* the closing prices of the list returned last and polls the number of    *)
(* next_bars calls.                                                        *)
(***************************************************************************)
MaxLimit == 6

MaxCalls == 6

InitFeed ==
    \E limit \in 0..MaxLimit :
        /\ args = [min_history |-> 0, history_limit |-> limit,
                   interval |-> F(0), trade_fraction |-> F(0),
                   fee_rate |-> F(0), iterations |-> 0,
                   start_xmr |-> F(0), start_usd |-> F(0)]
        /\ xmr_balance = F(0)
        /\ usd_balance = F(0)
        /\ trade_fraction = F(0)
        /\ fee_rate = F(0)
        /\ iteration = 0
        /\ history = << >>
        /\ baseline_total_value = None
        /\ baseline_price = None
        /\ simulation_feed = NoFeed
        /\ simulation_active = FALSE
        /\ buy_count = 0
        /\ total_xmr_bought = F(0)
        /\ total_usd_spent_with_fees = F(0)
        /\ total_buy_fees = F(0)
        /\ sell_count = 0
        /\ total_xmr_sold = F(0)
        /\ total_usd_gained_net = F(0)
        /\ total_sell_fees = F(0)
        /\ recommendation = NoRecommendation
        /\ exception = "None"
        /\ stdout = << >>
        /\ exit_status = -1
        /\ slept = None
        /\ polls = 0
        /\ outperformance = None
        /\ share_change = None
        /\ trade_lines = << >>
        /\ cycle_target_share = None
        /\ bars_from = "none"
        /\ indicator = NotCalled
        /\ pc = "construct"

\* What a step of SpecFeed leaves alone.
FeedFrame ==
    UNCHANGED << args, trade_fraction, fee_rate, recommendation,
                 xmr_balance, usd_balance, iteration, baseline_total_value,
                 baseline_price, simulation_active, buy_count,
                 total_xmr_bought, total_usd_spent_with_fees, total_buy_fees,
                 sell_count, total_xmr_sold, total_usd_gained_net,
                 total_sell_fees, stdout, exit_status, slept, outperformance,
                 share_change, trade_lines, cycle_target_share, bars_from,
                 indicator >>

\* live.py 43-62: the constructor with a positive limit.
Construct ==
    /\ pc = "construct"
    /\ args.history_limit > 0
    /\ \E now \in Clock :
           simulation_feed' = SimulatedMoneroFeed(args.history_limit, now)
    /\ pc' = "feed"
    /\ UNCHANGED << exception, history, polls >>
    /\ FeedFrame

\* live.py 44-45: limit <= 0 raises ValueError.
ConstructBadLimit ==
    /\ pc = "construct"
    /\ args.history_limit <= 0
    /\ exception' = "ValueError"
    /\ pc' = "raised"
    /\ UNCHANGED << simulation_feed, history, polls >>
    /\ FeedFrame

\* live.py 100-114: one call of next_bars.
NextBars ==
    /\ pc = "feed"
    /\ polls < MaxCalls
    /\ \E now \in Clock :
       \E feed \in {next_bars(simulation_feed, now)} :
           /\ simulation_feed' = feed
           /\ history' = closing_prices(feed.history)
    /\ polls' = polls + 1
    /\ UNCHANGED << pc, exception >>
    /\ FeedFrame

NextFeed == Construct \/ ConstructBadLimit \/ NextBars

SpecFeed == InitFeed /\ [][NextFeed]_vars

FeedBars == simulation_feed.history

\* C30 (under SpecFeed): once constructed with limit L > 0, and after any
\* number of next_bars calls, the feed holds exactly L bars with strictly
\* increasing timestamps; every bar but the oldest opens at the close of
\* the bar before it, trimmed or not; every bar has low <= min(open, close)
\* and max(open, close) <= high; the source index is within the source and
\* is back at 0 after the last record.
C30_FeedInvariant ==
    pc = "feed" =>
        /\ Len(FeedBars) = args.history_limit
        /\ \A i \in 2..Len(FeedBars) :
               /\ FeedBars[i - 1].date < FeedBars[i].date
               /\ FeedBars[i].open = FeedBars[i - 1].close
        /\ \A i \in 1..Len(FeedBars) :
               /\ FeedBars[i].low <= Min2(FeedBars[i].open, FeedBars[i].close)
               /\ Max2(FeedBars[i].open, FeedBars[i].close) <= FeedBars[i].high
        /\ simulation_feed.index \in 0..(Len(SimulationSource) - 1)
        /\ simulation_feed.index =
               (args.history_limit + polls) % Len(SimulationSource)

\* C30 witness: a feed of 3 bars after two next_bars calls: the oldest
\* bars have been trimmed, the index is back at 0 after the fifth record
\* and the clock had run ahead of the last bar at one of the calls.
C30_Witness ==
    /\ pc = "feed"
    /\ args.history_limit = 3
    /\ polls = 2
    /\ simulation_feed.index = 0
    /\ FeedBars[1].open # SimulationSource[1].open
    /\ \E i \in 2..3 : FeedBars[i].date > FeedBars[i - 1].date + 1

====
